---- MODULE Spec2Model ----
(***************************************************************************)
(* Multi-target module assembly of Halide: build_multitarget_module as it  *)
(* is written twice in the repository, in src/src/Output.cpp (lines        *)
(* 67-154) and in src/apps/HelloiOS/HelloiOS/HalideView.m (lines 550-642). *)
(* The two copies differ in the must-match feature list and in where the   *)
(* wrapper's argument list comes from; the variable impl says which copy   *)
(* is running. link_modules (HalideView.m lines 467-491) is a call of its  *)
(* own, under the specification SpecLink. The output driver, written as    *)
(* compile_module_to_outputs (Output.cpp lines 14-63) and once more as     *)
(* Module::compile (HalideView.m lines 493-542), and                       *)
(* compile_standalone_runtime run under the specification SpecOut.         *)
(*                                                                         *)
(* Strings are sequences of tokens; "-" and "_" are tokens of their own,   *)
(* and no other token contains "-".                                        *)
(***************************************************************************)
EXTENDS Integers, Sequences, FiniteSets

VARIABLES
    impl,          \* which copy of build_multitarget_module runs
    fn_name,       \* argument fn_name
    targets,       \* argument targets
    pc,            \* position in the call
    i,             \* index of the loop over targets (1-based)
    calls,         \* invocations of module_producer so far, with their results
    modules,       \* local std::vector<Module> modules
    wrapper_args,  \* local std::vector<Expr> wrapper_args
    result,        \* the returned Module, or NoModule
    error,         \* the message of the fatal user error, or NoError
    link_name,     \* link_modules: argument name
    link_inputs,   \* link_modules: argument modules
    link_pc,       \* link_modules: position in the call
    link_i,        \* link_modules: index of the loop over modules (1-based)
    link_output,   \* link_modules: local Module output
    link_result,   \* link_modules: the returned Module, or NoModule
    link_error,    \* link_modules: the message of the fatal user error, or NoError
    out_entry,     \* output driver: the function the caller called last, or "idle"
    out_args,      \* output driver: the arguments the caller passed to it
    out_driver,    \* output driver: the copy of the driver that ran last
    out_module,    \* output driver: argument module of the last call
    out_request,   \* output driver: argument output_files of the last call
    out_trace,     \* output driver: the backend invocations of the last call, in order
    out_fs,        \* the files on disk, by path
    out_prev,      \* output driver: the call before the last one, or NoCall
    out_calls      \* output driver: the number of calls made

buildvars == <<impl, fn_name, targets, pc, i, calls, modules, wrapper_args,
               result, error>>

linkvars == <<link_name, link_inputs, link_pc, link_i, link_output, link_result,
              link_error>>

outvars == <<out_entry, out_args, out_driver, out_module, out_request, out_trace, out_fs,
             out_prev, out_calls>>

vars == <<impl, fn_name, targets, pc, i, calls, modules, wrapper_args,
          result, error, link_name, link_inputs, link_pc, link_i, link_output,
          link_result, link_error, out_entry, out_args, out_driver, out_module,
          out_request, out_trace, out_fs, out_prev, out_calls>>

(***************************************************************************)
(* Bounds                                                                  *)
(***************************************************************************)
MaxTargets == 3
MaxModules == 3
MaxReruns == 1

NoModule == [none |-> "module"]
NoError == ""

(***************************************************************************)
(* Target                                                                  *)
(***************************************************************************)
\* The closed enumeration of feature names, in enumeration order.
FeatureOrder ==
    <<"jit", "debug", "profile", "user_context", "register_metadata",
      "no_runtime", "c_plus_plus_name_mangling">>

Features == {FeatureOrder[k] : k \in 1..Len(FeatureOrder)}

Target(os, arch, bits, fs) == [os |-> os, arch |-> arch, bits |-> bits, features |-> fs]

has_feature(t, f) == f \in t.features

with_feature(t, f) == [t EXCEPT !.features = @ \cup {f}]

without_feature(t, f) == [t EXCEPT !.features = @ \ {f}]

RECURSIVE feature_suffix(_, _)
feature_suffix(t, k) ==
    IF k > Len(FeatureOrder) THEN <<>>
    ELSE (IF has_feature(t, FeatureOrder[k]) THEN <<"-", FeatureOrder[k]>> ELSE <<>>)
         \o feature_suffix(t, k + 1)

\* <os>-<arch>-<bits>[-<feature>]*
to_string(t) ==
    <<t.os, "-", t.arch, "-", IF t.bits = 64 THEN "64" ELSE "32">> \o feature_suffix(t, 1)

replace_all(str, from, to) ==
    [k \in 1..Len(str) |-> IF str[k] = from THEN to ELSE str[k]]

(***************************************************************************)
(* Module and LoweredFunc                                                  *)
(***************************************************************************)
Module(name, target) ==
    [name |-> name, target |-> target, buffers |-> <<>>, functions |-> <<>>]

append(m, b) == [m EXCEPT !.buffers = Append(@, b)]

appendf(m, f) == [m EXCEPT !.functions = Append(@, f)]

LoweredFunc(name, fargs, body, linkage) ==
    [name |-> name, args |-> fargs, body |-> body, linkage |-> linkage]

(***************************************************************************)
(* Outputs and the files on disk                                           *)
(***************************************************************************)
\* A default-constructed Outputs: one path per artifact kind, all empty.
Outputs ==
    [object_name |-> "", assembly_name |-> "", bitcode_name |-> "",
     llvm_assembly_name |-> "", c_header_name |-> "", c_source_name |-> "",
     stmt_name |-> "", stmt_html_name |-> ""]

\* Outputs::object(path): a copy with the object path set.
Outputs_object(o, path) == [o EXCEPT !.object_name = path]

Kinds == DOMAIN Outputs

\* The requests a caller may make: per kind, a path or "" for no such
\* artifact. The object path may also be the one the statement dump goes to.
PathChoices ==
    [object_name |-> {"", "f.o", "f.stmt"}, assembly_name |-> {"", "f.s"},
     bitcode_name |-> {"", "f.bc"}, llvm_assembly_name |-> {"", "f.ll"},
     c_header_name |-> {"", "f.h"}, c_source_name |-> {"", "f.c"},
     stmt_name |-> {"", "f.stmt"}, stmt_html_name |-> {"", "f.html"}]

Requests ==
    [object_name : PathChoices.object_name, assembly_name : PathChoices.assembly_name,
     bitcode_name : PathChoices.bitcode_name,
     llvm_assembly_name : PathChoices.llvm_assembly_name,
     c_header_name : PathChoices.c_header_name, c_source_name : PathChoices.c_source_name,
     stmt_name : PathChoices.stmt_name, stmt_html_name : PathChoices.stmt_html_name]

RuntimePaths == {"", "runtime.o"}

Paths == {"f.o", "f.s", "f.bc", "f.ll", "f.h", "f.c", "f.stmt", "f.html", "runtime.o"}

NoFile == [none |-> "file"]
NoCall == [none |-> "call"]

\* No call of the output driver has been made; the disk holds none of the paths.
OutIdle ==
    /\ out_entry = "idle"
    /\ out_args = <<>>
    /\ out_driver = "idle"
    /\ out_module = NoModule
    /\ out_request = Outputs
    /\ out_trace = <<>>
    /\ out_fs = [p \in Paths |-> NoFile]
    /\ out_prev = NoCall
    /\ out_calls = 0

(***************************************************************************)
(* The inputs of a call                                                    *)
(***************************************************************************)
Host(fs) == Target("linux", "x86", 64, fs)

TargetPool ==
    { Host({}), Host({"debug"}), Host({"profile"}), Host({"profile", "debug"}),
      Host({"no_runtime"}), Host({"no_runtime", "debug"}), Host({"jit"}),
      Host({"user_context"}), Host({"c_plus_plus_name_mangling"}),
      Host({"register_metadata"}),
      Target("linux", "arm", 64, {}), Target("linux", "x86", 32, {}),
      Target("osx", "x86", 64, {}) }

TargetLists == UNION {[1..n -> TargetPool] : n \in 0..MaxTargets}

FnNames == {<<>>, <<"f">>}

ArgsA == <<"input", "output">>
ArgsB == <<"input", "factor", "output">>
ArgsH == <<"scratch">>
ArgLists == {ArgsA, ArgsB}

\* What module_producer may return for (name, target): a Module of that name on
\* that target whose last function is the public one, named name.
OpaqueBody == [stmt |-> "opaque"]

ProducerOutputs(name, target) ==
    { appendf(Module(name, target), LoweredFunc(name, ArgsA, OpaqueBody, "External")),
      appendf(appendf(append(Module(name, target), "lut"),
                      LoweredFunc(name \o <<"_", "helper">>, ArgsH, OpaqueBody, "Internal")),
              LoweredFunc(name, ArgsB, OpaqueBody, "External")) }

Impls == {"HalideView", "Output"}

\* No call of link_modules is in progress.
LinkIdle ==
    /\ link_name = <<>>
    /\ link_inputs = <<>>
    /\ link_pc = "idle"
    /\ link_i = 1
    /\ link_output = NoModule
    /\ link_result = NoModule
    /\ link_error = NoError

Init ==
    /\ LinkIdle
    /\ OutIdle
    /\ impl \in Impls
    /\ fn_name \in FnNames
    /\ targets \in TargetLists
    /\ pc = "start"
    /\ i = 1
    /\ calls = <<>>
    /\ modules = <<>>
    /\ wrapper_args = <<>>
    /\ result = NoModule
    /\ error = NoError

(***************************************************************************)
(* build_multitarget_module: the pieces                                    *)
(***************************************************************************)
\* Faulty variant: the baseline taken from the front of the list.
base_target_front(ts) == ts[1]

\* const Target &base_target = targets.back();
base_target(ts) == ts[Len(ts)]

\* Faulty variant: the fast path calling the producer as the general path does.
fast_path_call_mangled(fn, base) ==
    [name |-> fn \o <<"_">> \o to_string(base), target |-> with_feature(base, "no_runtime")]

\* the call of the single-target fast path: module_producer(fn_name, base_target)
fast_path_call(fn, base) == [name |-> fn, target |-> base]

\* Faulty variant: the bit width left out of the comparison.
os_arch_differ_only(target, base) ==
    \/ target.os # base.os
    \/ target.arch # base.arch

os_arch_bits_differ(target, base) ==
    \/ target.os # base.os
    \/ target.arch # base.arch
    \/ target.bits # base.bits

must_match_features_Output == {"no_runtime", "user_context", "jit"}

must_match_features_HalideView ==
    {"c_plus_plus_name_mangling", "jit", "no_runtime", "register_metadata",
     "user_context"}

must_match_features(im) ==
    IF im = "Output" THEN must_match_features_Output
    ELSE must_match_features_HalideView

\* Faulty variant: whole feature sets compared, as link_modules compares Targets.
must_match_differs_strict(im, target, base) == target.features # base.features

\* Faulty variant: the feature check left out.
must_match_differs_never(im, target, base) == FALSE

must_match_differs(im, target, base) ==
    \E f \in must_match_features(im) : has_feature(target, f) # has_feature(base, f)

\* Faulty variant: the target string appended with its "-" left in.
sub_fn_name_unreplaced(fn, target) == fn \o <<"_">> \o to_string(target)

\* fn_name + "_" + replace_all(target.to_string(), "-", "_")
sub_fn_name(fn, target) == fn \o <<"_">> \o replace_all(to_string(target), "-", "_")

\* target.with_feature(Target::NoRuntime)
producer_target(target) == with_feature(target, "no_runtime")

\* feature_bits |= 1 << i for every feature i the target has; feature number
\* k - 1 is FeatureOrder[k]. The static_assert keeps FeatureEnd within the 64
\* bits of feature_bits, so no shift overflows.
RECURSIVE feature_bits_from(_, _)
feature_bits_from(target, k) ==
    IF k > Len(FeatureOrder) THEN 0
    ELSE (IF has_feature(target, FeatureOrder[k]) THEN 2 ^ (k - 1) ELSE 0)
         + feature_bits_from(target, k + 1)

\* Faulty variant: the bits never or-ed in.
feature_bits_zero(target) == 0

\* Faulty variant: the mask taken of the target the producer is called with.
feature_bits_of_producer_target(target) == feature_bits_from(producer_target(target), 1)

feature_bits(target) == feature_bits_from(target, 1)

\* Faulty variant: the capability call emitted for the baseline too.
can_use_always_call(target, base) ==
    [call |-> "halide_can_use_target_features", arg |-> feature_bits(target)]

can_use(target, base) ==
    IF target # base
    THEN [call |-> "halide_can_use_target_features", arg |-> feature_bits(target)]
    ELSE [imm |-> 1]

\* wrapper_args.push_back(can_use != 0); wrapper_args.push_back(sub_fn_name);
wrapper_arg_pair(fn, target, base) ==
    << [ne |-> <<can_use(target, base), 0>>], [name |-> sub_fn_name(fn, target)] >>

\* Faulty variant: a runtime module added whatever the baseline says.
needs_runtime_always(base) == TRUE

needs_runtime(base) == ~has_feature(base, "no_runtime")

\* Faulty variant: a runtime module that carries a function of its own.
runtime_module_with_function(fn, base) ==
    appendf(Module(fn \o <<"_runtime">>, without_feature(base, "no_runtime")),
            LoweredFunc(fn \o <<"_runtime">>, <<>>, [stmt |-> "opaque"], "Internal"))

runtime_module(fn, base) ==
    Module(fn \o <<"_runtime">>, without_feature(base, "no_runtime"))

\* The modules to merge: the sub-modules, then the runtime module if one is needed.
merge_list(fn, base, subs) ==
    IF needs_runtime(base) THEN Append(subs, runtime_module(fn, base)) ELSE subs

\* HalideView.m: the arguments of the last function of the last sub-module.
\* Output.cpp: build_public_args(args, base_target), where args is neither a
\* parameter nor a local of the function; what it yields does not depend on the
\* sub-modules, so it is any argument list.
public_args_HalideView(subs) ==
    LET base_module == subs[Len(subs)]
        base_public_func == base_module.functions[Len(base_module.functions)]
    IN  base_public_func.args

public_args_choices(im, subs) ==
    IF im = "Output" THEN ArgLists ELSE {public_args_HalideView(subs)}

\* A name no other call of unique_name has returned: the prefix and a suffix of
\* its own, written here as one token.
unique_name(prefix) == prefix \o <<"$unique">>

private_result_name(fn) == unique_name(fn \o <<"_result">>)

\* Faulty variant: the variable read is named by the prefix, not by the unique
\* name the let binds.
wrapper_body_unbound(fn, wargs) ==
    LET indirect_result == [call |-> "call_cached_indirect_function", args |-> wargs]
        private_result_var == [var |-> fn \o <<"_result">>]
    IN  [let |-> private_result_name(fn),
         value |-> indirect_result,
         body |-> [assert |-> [eq |-> <<private_result_var, 0>>],
                   message |-> private_result_var]]

wrapper_body(fn, wargs) ==
    LET indirect_result == [call |-> "call_cached_indirect_function", args |-> wargs]
        private_result_var == [var |-> private_result_name(fn)]
    IN  [let |-> private_result_name(fn),
         value |-> indirect_result,
         body |-> [assert |-> [eq |-> <<private_result_var, 0>>],
                   message |-> private_result_var]]

wrapper_func(fn, pargs, wargs) ==
    LoweredFunc(fn, pargs, wrapper_body(fn, wargs), "External")

RECURSIVE append_all(_, _, _)
append_all(m, items, k) ==
    IF k > Len(items) THEN m ELSE append_all(append(m, items[k]), items, k + 1)

RECURSIVE appendf_all(_, _, _)
appendf_all(m, items, k) ==
    IF k > Len(items) THEN m ELSE appendf_all(appendf(m, items[k]), items, k + 1)

\* Faulty variant: the buffers of the inputs left behind.
RECURSIVE merge_inputs_without_buffers(_, _, _)
merge_inputs_without_buffers(m, inputs, k) ==
    IF k > Len(inputs) THEN m
    ELSE merge_inputs_without_buffers(appendf_all(m, inputs[k].functions, 1),
                                      inputs, k + 1)

\* for (const Module &input : modules) { append its buffers; append its functions }
RECURSIVE merge_inputs(_, _, _)
merge_inputs(m, inputs, k) ==
    IF k > Len(inputs) THEN m
    ELSE merge_inputs(appendf_all(append_all(m, inputs[k].buffers, 1),
                                  inputs[k].functions, 1),
                      inputs, k + 1)

\* Faulty variant: the wrapper appended before the inputs.
multi_module_wrapper_first(fn, base, inputs, wrapper) ==
    merge_inputs(appendf(Module(fn, base), wrapper), inputs, 1)

\* Faulty variant: the Target of the first input, as link_modules picks it.
multi_module_first_target(fn, base, inputs, wrapper) ==
    appendf(merge_inputs(Module(fn, inputs[1].target), inputs, 1), wrapper)

\* Module multi_module(fn_name, base_target); the inputs; the wrapper last.
multi_module(fn, base, inputs, wrapper) ==
    appendf(merge_inputs(Module(fn, base), inputs, 1), wrapper)

(***************************************************************************)
(* build_multitarget_module: the steps                                     *)
(***************************************************************************)
\* user_assert / user_error: the call ends at once and returns no Module.
user_error(msg) ==
    /\ pc' = "error"
    /\ error' = msg
    /\ UNCHANGED <<impl, fn_name, targets, i, calls, modules, wrapper_args, result>>

\* The preconditions and the single-target fast path.
Entry ==
    /\ pc = "start"
    /\ UNCHANGED linkvars
    /\ UNCHANGED outvars
    /\ \/ /\ fn_name = <<>>
          /\ user_error("Function name must be specified.")
       \/ /\ fn_name # <<>>
          /\ targets = <<>>
          /\ user_error("Must specify at least one target.")
       \/ /\ fn_name # <<>>
          /\ targets # <<>>
          /\ has_feature(base_target(targets), "jit")
          /\ user_error("JIT not allowed for compile_to_multitarget_object.")
       \/ /\ fn_name # <<>>
          /\ targets # <<>>
          /\ ~has_feature(base_target(targets), "jit")
          /\ Len(targets) = 1
          /\ LET c == fast_path_call(fn_name, base_target(targets)) IN
             \E m \in ProducerOutputs(c.name, c.target) :
                /\ calls' = Append(calls, [name |-> c.name, target |-> c.target, out |-> m])
                /\ result' = m
          /\ pc' = "done"
          /\ UNCHANGED <<impl, fn_name, targets, i, modules, wrapper_args, error>>
       \/ /\ fn_name # <<>>
          /\ targets # <<>>
          /\ ~has_feature(base_target(targets), "jit")
          /\ Len(targets) # 1
          /\ pc' = "loop"
          /\ UNCHANGED <<impl, fn_name, targets, i, calls, modules, wrapper_args,
                         result, error>>

\* One iteration of for (const Target &target : targets).
LoopBody ==
    /\ pc = "loop"
    /\ UNCHANGED linkvars
    /\ UNCHANGED outvars
    /\ LET target == targets[i]
           base == base_target(targets)
       IN  \/ /\ os_arch_bits_differ(target, base)
              /\ user_error("All Targets must have matching arch-bits-os for compile_to_multitarget_object.")
           \/ /\ ~os_arch_bits_differ(target, base)
              /\ must_match_differs(impl, target, base)
              /\ user_error("All Targets must have matching feature for compile_to_multitarget_object.")
           \/ /\ ~os_arch_bits_differ(target, base)
              /\ ~must_match_differs(impl, target, base)
              /\ \E m \in ProducerOutputs(sub_fn_name(fn_name, target), producer_target(target)) :
                    /\ calls' = Append(calls, [name |-> sub_fn_name(fn_name, target),
                                               target |-> producer_target(target),
                                               out |-> m])
                    /\ modules' = Append(modules, m)
              /\ wrapper_args' = wrapper_args \o wrapper_arg_pair(fn_name, target, base)
              /\ i' = i + 1
              /\ pc' = IF i = Len(targets) THEN "link" ELSE "loop"
              /\ UNCHANGED <<impl, fn_name, targets, result, error>>

\* Everything after the loop: the public arguments, the runtime module, the
\* wrapper, the merged Module.
Finish ==
    /\ pc = "link"
    /\ UNCHANGED linkvars
    /\ UNCHANGED outvars
    /\ LET base == base_target(targets) IN
       \E pargs \in public_args_choices(impl, modules) :
          /\ modules' = merge_list(fn_name, base, modules)
          /\ result' = multi_module(fn_name, base, merge_list(fn_name, base, modules),
                                    wrapper_func(fn_name, pargs, wrapper_args))
    /\ pc' = "done"
    /\ UNCHANGED <<impl, fn_name, targets, i, calls, wrapper_args, error>>

Next == Entry \/ LoopBody \/ Finish

Spec == Init /\ [][Next]_vars

(***************************************************************************)
(* link_modules                                                            *)
(***************************************************************************)
LinkFunc(name, fargs) == LoweredFunc(<<name>>, fargs, OpaqueBody, "External")

LinkModule(name, target, buffers, functions) ==
    [name |-> <<name>>, target |-> target, buffers |-> buffers, functions |-> functions]

\* Modules a caller may pass; within each, function names are distinct.
ModulePool ==
    { LinkModule("a", Host({}), <<"lut_a">>, <<LinkFunc("g", ArgsA), LinkFunc("h", ArgsH)>>),
      LinkModule("b", Host({}), <<>>, <<LinkFunc("g", ArgsB)>>),
      LinkModule("c", Host({"debug"}), <<"lut_c">>, <<LinkFunc("k", ArgsA)>>),
      LinkModule("d", Host({}), <<"lut_d1", "lut_d2">>, <<>>),
      LinkModule("e", Target("linux", "arm", 64, {}), <<>>, <<LinkFunc("k", ArgsA)>>) }

ModuleLists == UNION {[1..n -> ModulePool] : n \in 0..MaxModules}

LinkNames == {<<"linked">>, <<"a">>}

\* No call of build_multitarget_module is in progress.
BuildIdle ==
    /\ impl = "HalideView"
    /\ fn_name = <<>>
    /\ targets = <<>>
    /\ pc = "idle"
    /\ i = 1
    /\ calls = <<>>
    /\ modules = <<>>
    /\ wrapper_args = <<>>
    /\ result = NoModule
    /\ error = NoError

InitLink ==
    /\ BuildIdle
    /\ OutIdle
    /\ link_name \in LinkNames
    /\ link_inputs \in ModuleLists
    /\ link_pc = "start"
    /\ link_i = 1
    /\ link_output = NoModule
    /\ link_result = NoModule
    /\ link_error = NoError

\* Faulty variant: the output named after the first input.
link_output_init_input_name(name, ms) == Module(ms[1].name, ms[1].target)

\* Module output(name, modules.front().target());
link_output_init(name, ms) == Module(name, ms[1].target)

\* Faulty variant: only os, arch and bits compared, as the multitarget builder does.
link_targets_differ_machine(output, input) ==
    os_arch_bits_differ(output.target, input.target)

\* output.target() != input.target()
link_targets_differ(output, input) == output.target # input.target

\* Faulty variant: the buffers of the input left out.
link_append_input_functions_only(output, input) ==
    appendf_all(output, input.functions, 1)

\* the buffers of one input appended, then its functions
link_append_input(output, input) ==
    appendf_all(append_all(output, input.buffers, 1), input.functions, 1)

link_user_error(msg) ==
    /\ link_pc' = "error"
    /\ link_error' = msg
    /\ UNCHANGED <<link_name, link_inputs, link_i, link_output, link_result>>

\* The construction of output. On an empty list modules.front() is undefined:
\* the call crashes, or a Target is read from whatever memory is there and the
\* call goes on to the loop, which has nothing to run over.
LinkEntry ==
    /\ link_pc = "start"
    /\ UNCHANGED buildvars
    /\ UNCHANGED outvars
    /\ \/ /\ link_inputs # <<>>
          /\ link_output' = link_output_init(link_name, link_inputs)
          /\ link_pc' = "loop"
          /\ UNCHANGED <<link_name, link_inputs, link_i, link_result, link_error>>
       \/ /\ link_inputs = <<>>
          /\ link_pc' = "crashed"
          /\ UNCHANGED <<link_name, link_inputs, link_i, link_output, link_result,
                         link_error>>
       \/ /\ link_inputs = <<>>
          /\ \E garbage \in TargetPool : link_output' = Module(link_name, garbage)
          /\ link_pc' = "return"
          /\ UNCHANGED <<link_name, link_inputs, link_i, link_result, link_error>>

\* One iteration of for (size_t i = 0; i < modules.size(); i++).
LinkLoop ==
    /\ link_pc = "loop"
    /\ UNCHANGED buildvars
    /\ UNCHANGED outvars
    /\ LET input == link_inputs[link_i] IN
       \/ /\ link_targets_differ(link_output, input)
          /\ link_user_error("Mismatched targets in modules to link")
       \/ /\ ~link_targets_differ(link_output, input)
          /\ link_output' = link_append_input(link_output, input)
          /\ link_i' = link_i + 1
          /\ link_pc' = IF link_i = Len(link_inputs) THEN "return" ELSE "loop"
          /\ UNCHANGED <<link_name, link_inputs, link_result, link_error>>

\* return output;
LinkReturn ==
    /\ link_pc = "return"
    /\ UNCHANGED buildvars
    /\ UNCHANGED outvars
    /\ link_result' = link_output
    /\ link_pc' = "done"
    /\ UNCHANGED <<link_name, link_inputs, link_i, link_output, link_error>>

NextLink == LinkEntry \/ LinkLoop \/ LinkReturn

SpecLink == InitLink /\ [][NextLink]_vars

(***************************************************************************)
(* The output driver: compile_module_to_outputs, Module::compile and       *)
(* compile_standalone_runtime. A call is the sequence of backend           *)
(* invocations it makes; the files follow from the invocations.            *)
(***************************************************************************)
\* One invocation of a backend: what is called, on what, the file it writes
\* to, the language variant and the path handed to the generator itself.
Backend(op, input, path, variant, guard) ==
    [op |-> op, input |-> input, path |-> path, variant |-> variant, guard |-> guard]

\* compile_module_to_llvm_module(module, context): the call, and the
\* llvm::Module it returns; n numbers the lowerings of one driver call.
lower(m) == Backend("compile_module_to_llvm_module", m, "", "", "")

llvm_module(m, n) == [llvm_module_of |-> m, lowering |-> n]

\* compile_llvm_module_to_<format>(*llvm_module, path)
native(op, lm, path) == Backend(op, lm, path, "", "")

\* if (cond) { one invocation }
when(cond, inv) == IF cond THEN <<inv>> ELSE <<>>

native_requested(o) ==
    \/ o.object_name # ""
    \/ o.assembly_name # ""
    \/ o.bitcode_name # ""
    \/ o.llvm_assembly_name # ""

\* Faulty variant: a true object file on every architecture.
object_emitter_no_substitution(m) == "compile_llvm_module_to_object"

object_emitter(m) ==
    IF m.target.arch = "pnacl" THEN "compile_llvm_module_to_llvm_bitcode"
    ELSE "compile_llvm_module_to_object"

assembly_emitter(m) ==
    IF m.target.arch = "pnacl" THEN "compile_llvm_module_to_llvm_assembly"
    ELSE "compile_llvm_module_to_assembly"

\* Faulty variant: every native artifact lowers the Module for itself.
emit_native_relower(m, o) ==
    when(o.object_name # "", lower(m))
    \o when(o.object_name # "",
            native(object_emitter(m), llvm_module(m, 1), o.object_name))
    \o when(o.assembly_name # "", lower(m))
    \o when(o.assembly_name # "",
            native(assembly_emitter(m), llvm_module(m, 2), o.assembly_name))
    \o when(o.bitcode_name # "", lower(m))
    \o when(o.bitcode_name # "",
            native("compile_llvm_module_to_llvm_bitcode", llvm_module(m, 3),
                   o.bitcode_name))
    \o when(o.llvm_assembly_name # "", lower(m))
    \o when(o.llvm_assembly_name # "",
            native("compile_llvm_module_to_llvm_assembly", llvm_module(m, 4),
                   o.llvm_assembly_name))

\* Output.cpp lines 15-40: the native block.
emit_native(m, o) ==
    IF native_requested(o)
    THEN <<lower(m)>>
         \o when(o.object_name # "",
                 native(object_emitter(m), llvm_module(m, 1), o.object_name))
         \o when(o.assembly_name # "",
                 native(assembly_emitter(m), llvm_module(m, 1), o.assembly_name))
         \o when(o.bitcode_name # "",
                 native("compile_llvm_module_to_llvm_bitcode", llvm_module(m, 1),
                        o.bitcode_name))
         \o when(o.llvm_assembly_name # "",
                 native("compile_llvm_module_to_llvm_assembly", llvm_module(m, 1),
                        o.llvm_assembly_name))
    ELSE <<>>

\* Faulty variant: the plain C header whatever the target says.
c_header_variant_plain(m) == "CHeader"

c_header_variant(m) ==
    IF has_feature(m.target, "c_plus_plus_name_mangling") THEN "CPlusPlusHeader"
    ELSE "CHeader"

c_source_variant(m) ==
    IF has_feature(m.target, "c_plus_plus_name_mangling") THEN "CPlusPlusImplementation"
    ELSE "CImplementation"

\* CodeGen_C cg(file, variant, output_files.c_header_name); cg.compile(module);
emit_c_header(m, o) ==
    when(o.c_header_name # "",
         Backend("CodeGen_C", m, o.c_header_name, c_header_variant(m), o.c_header_name))

\* CodeGen_C cg(file, variant); cg.compile(module); no path is passed.
emit_c_source(m, o) ==
    when(o.c_source_name # "",
         Backend("CodeGen_C", m, o.c_source_name, c_source_variant(m), ""))

\* Faulty variant: the dump made of the lowered Module when there is one.
stmt_input_lowered(m, o) == IF native_requested(o) THEN llvm_module(m, 1) ELSE m

\* file << module
stmt_input(m, o) == m

emit_stmt(m, o) ==
    when(o.stmt_name # "", Backend("operator<<", stmt_input(m, o), o.stmt_name, "", ""))

emit_stmt_html(m, o) ==
    when(o.stmt_html_name # "", Backend("print_to_html", m, o.stmt_html_name, "", ""))

\* Faulty variant: the HTML dump never made.
compile_module_to_outputs_no_html(m, o) ==
    emit_native(m, o) \o emit_c_header(m, o) \o emit_c_source(m, o) \o emit_stmt(m, o)

compile_module_to_outputs(m, o) ==
    emit_native(m, o) \o emit_c_header(m, o) \o emit_c_source(m, o)
    \o emit_stmt(m, o) \o emit_stmt_html(m, o)

\* Faulty variant: a delegation that hands on the object path alone.
Module_compile_object_only(m, o) ==
    compile_module_to_outputs(m, Outputs_object(Outputs, o.object_name))

\* HalideView.m lines 493-542, statement by statement.
Module_compile(m, o) ==
    LET pnacl == m.target.arch = "pnacl"
        cpp == has_feature(m.target, "c_plus_plus_name_mangling")
        lm == llvm_module(m, 1)
    IN  (IF \/ o.object_name # ""
            \/ o.assembly_name # ""
            \/ o.bitcode_name # ""
            \/ o.llvm_assembly_name # ""
         THEN <<lower(m)>>
              \o when(o.object_name # "",
                      IF pnacl
                      THEN native("compile_llvm_module_to_llvm_bitcode", lm, o.object_name)
                      ELSE native("compile_llvm_module_to_object", lm, o.object_name))
              \o when(o.assembly_name # "",
                      IF pnacl
                      THEN native("compile_llvm_module_to_llvm_assembly", lm, o.assembly_name)
                      ELSE native("compile_llvm_module_to_assembly", lm, o.assembly_name))
              \o when(o.bitcode_name # "",
                      native("compile_llvm_module_to_llvm_bitcode", lm, o.bitcode_name))
              \o when(o.llvm_assembly_name # "",
                      native("compile_llvm_module_to_llvm_assembly", lm,
                             o.llvm_assembly_name))
         ELSE <<>>)
        \o when(o.c_header_name # "",
                Backend("CodeGen_C", m, o.c_header_name,
                        IF cpp THEN "CPlusPlusHeader" ELSE "CHeader", o.c_header_name))
        \o when(o.c_source_name # "",
                Backend("CodeGen_C", m, o.c_source_name,
                        IF cpp THEN "CPlusPlusImplementation" ELSE "CImplementation", ""))
        \o when(o.stmt_name # "", Backend("operator<<", m, o.stmt_name, "", ""))
        \o when(o.stmt_html_name # "", Backend("print_to_html", m, o.stmt_html_name, "", ""))

Drivers == {"compile_module_to_outputs", "Module::compile"}

run_driver(driver, m, o) ==
    IF driver = "Module::compile" THEN Module_compile(m, o)
    ELSE compile_module_to_outputs(m, o)

\* What a backend leaves in the file it writes: a function of what it was
\* called on and with.
file_content(inv) ==
    [op |-> inv.op, input |-> inv.input, variant |-> inv.variant, guard |-> inv.guard]

\* The lowering writes no file; every other backend writes the file at its path.
write_file(fs, inv) ==
    IF inv.path = "" THEN fs ELSE [fs EXCEPT ![inv.path] = file_content(inv)]

RECURSIVE run_backends(_, _, _)
run_backends(fs, trace, k) ==
    IF k > Len(trace) THEN fs ELSE run_backends(write_file(fs, trace[k]), trace, k + 1)

\* Faulty variant: JIT left on the target.
standalone_runtime_target_keeps_jit(t) == without_feature(t, "no_runtime")

\* t.without_feature(Target::NoRuntime).without_feature(Target::JIT)
standalone_runtime_target(t) == without_feature(without_feature(t, "no_runtime"), "jit")

\* Module empty("standalone_runtime", ...)
standalone_runtime_module(t) ==
    Module(<<"standalone_runtime">>, standalone_runtime_target(t))

\* Outputs().object(object_filename)
standalone_runtime_request(object_filename) == Outputs_object(Outputs, object_filename)

(***************************************************************************)
(* The output driver: the calls                                            *)
(***************************************************************************)
PNaCl(fs) == Target("nacl", "pnacl", 32, fs)

OutTargets ==
    { Host({}), Host({"c_plus_plus_name_mangling"}),
      PNaCl({}), PNaCl({"c_plus_plus_name_mangling"}) }

\* The Modules a caller may compile: a buffer and a public function.
OutModule(t) ==
    appendf(append(Module(<<"f">>, t), "lut"),
            LoweredFunc(<<"f">>, ArgsA, OpaqueBody, "External"))

OutModulePool == {OutModule(t) : t \in OutTargets}

RuntimeTargets ==
    { Host({}), Host({"no_runtime"}), Host({"jit", "no_runtime", "debug"}),
      PNaCl({"jit"}) }

\* The requests that ask for what prev asks for and for one kind more.
Extensions(prev) ==
    UNION { {[prev EXCEPT ![k] = p] : p \in PathChoices[k] \ {""}} :
            k \in {j \in Kinds : prev[j] = ""} }

\* The first call is on any Module with any request; a later call is on the
\* same Module with one more path set.
CallChoices ==
    IF out_entry = "idle" THEN OutModulePool \X Requests
    ELSE {out_module} \X Extensions(out_request)

\* What is kept of a call when the next one is made.
LastCall == [driver |-> out_driver, request |-> out_request, fs |-> out_fs]

\* One call of the driver, start to return.
OutCall(entry, args, driver, m, o) ==
    /\ out_calls <= MaxReruns
    /\ out_calls' = out_calls + 1
    /\ out_entry' = entry
    /\ out_args' = args
    /\ out_driver' = driver
    /\ out_module' = m
    /\ out_request' = o
    /\ out_trace' = run_driver(driver, m, o)
    /\ out_fs' = run_backends(out_fs, run_driver(driver, m, o), 1)
    /\ out_prev' = IF out_entry = "idle" THEN NoCall ELSE LastCall
    /\ UNCHANGED buildvars
    /\ UNCHANGED linkvars

CompileModuleToOutputs ==
    \E c \in CallChoices :
        OutCall("compile_module_to_outputs", c, "compile_module_to_outputs", c[1], c[2])

ModuleCompile ==
    \E c \in CallChoices : OutCall("Module::compile", c, "Module::compile", c[1], c[2])

\* Output.cpp lines 158-161 end in compile_module_to_outputs, HalideView.m
\* lines 544-547 in empty.compile.
CompileStandaloneRuntime ==
    /\ out_entry = "idle"
    /\ \E t \in RuntimeTargets : \E object_filename \in RuntimePaths :
       \E driver \in Drivers :
          OutCall("compile_standalone_runtime", <<object_filename, t>>, driver,
                  standalone_runtime_module(t),
                  standalone_runtime_request(object_filename))

InitOut ==
    /\ BuildIdle
    /\ LinkIdle
    /\ OutIdle

NextOut == CompileModuleToOutputs \/ ModuleCompile \/ CompileStandaloneRuntime

SpecOut == InitOut /\ [][NextOut]_vars

(***************************************************************************)
(* What the synthesized wrapper does when it is called: the runtime entry  *)
(* points it names and the three statement shapes it is made of.           *)
(***************************************************************************)
\* Bit k (from 0) of a mask.
mask_bit(mask, k) == (mask \div (2 ^ k)) % 2 = 1

\* Nonzero iff the machine satisfies every feature whose bit is set; hw is the
\* set of features the machine satisfies.
halide_can_use_target_features(mask, hw) ==
    IF \A k \in 1..Len(FeatureOrder) : mask_bit(mask, k - 1) => FeatureOrder[k] \in hw
    THEN 1 ELSE 0

\* The value of a predicate argument (e != 0) of the dispatch call.
predicate_holds(p, hw) ==
    LET e == p.ne[1]
        v == IF "imm" \in DOMAIN e THEN e.imm
             ELSE halide_can_use_target_features(e.arg, hw)
    IN  v # p.ne[2]

NoFunction == [none |-> "function"]

\* The first candidate, scanned in order, whose predicate is true.
RECURSIVE select_from(_, _, _)
select_from(wargs, hw, j) ==
    IF j + 1 > Len(wargs) THEN NoFunction
    ELSE IF predicate_holds(wargs[j], hw) THEN wargs[j + 1]
    ELSE select_from(wargs, hw, j + 2)

call_cached_indirect_function(wargs, hw) == select_from(wargs, hw, 1)

\* The value of an expression of the wrapper body where name is bound to val.
eval_expr(e, name, val) ==
    IF e.var = name THEN [int |-> val] ELSE [unbound |-> e.var]

\* LetStmt(name, call, AssertStmt(var == 0, var)) run with the dispatched
\* function returning ret.
run_wrapper_body(body, ret) ==
    LET a == body.body
        lhs == eval_expr(a.assert.eq[1], body.let, ret)
    IN  IF lhs = [int |-> a.assert.eq[2]]
        THEN [ok |-> TRUE]
        ELSE [failure |-> eval_expr(a.message, body.let, ret)]

ReturnValues == {-1, 0, 1, 2}

(***************************************************************************)
(* Vocabulary of the properties, written without the operators above       *)
(***************************************************************************)
Baseline == targets[Len(targets)]

LastFn(m) == m.functions[Len(m.functions)]

GeneralDone == pc = "done" /\ Len(targets) >= 2

PreconditionsHold ==
    fn_name # <<>> /\ targets # <<>> /\ "jit" \notin Baseline.features

SameMachine(t, b) == t.os = b.os /\ t.arch = b.arch /\ t.bits = b.bits

FiveMustMatch ==
    {"c_plus_plus_name_mangling", "jit", "no_runtime", "register_metadata",
     "user_context"}

AgreeOnFive(t, b) == \A f \in FiveMustMatch : (f \in t.features) <=> (f \in b.features)

Underscored(str) == [k \in DOMAIN str |-> IF str[k] = "-" THEN "_" ELSE str[k]]

ExpectedSubName(fn, t) == fn \o <<"_">> \o Underscored(to_string(t))

NoRuntimeForced(t) == [t EXCEPT !.features = @ \cup {"no_runtime"}]

IsWrapper(f) ==
    /\ "let" \in DOMAIN f.body
    /\ f.body.value.call = "call_cached_indirect_function"

FromSubModule(f) ==
    \E k \in 1..Len(calls) : \E j \in 1..Len(calls[k].out.functions) :
        f = calls[k].out.functions[j]

(***************************************************************************)
(* C1. With two or more targets, the last function of the returned Module  *)
(* is the synthesized wrapper, named exactly fn_name with External         *)
(* linkage; every function before it comes from a sub-module (the runtime  *)
(* module has none), so none of them follows the wrapper.                  *)
(***************************************************************************)
C1_WrapperLast ==
    GeneralDone =>
        LET n == Len(result.functions) IN
        /\ n >= 1
        /\ IsWrapper(result.functions[n])
        /\ result.functions[n].name = fn_name
        /\ result.functions[n].linkage = "External"
        /\ \A k \in 1..(n - 1) :
              FromSubModule(result.functions[k]) /\ ~IsWrapper(result.functions[k])

C1_Witness ==
    /\ GeneralDone
    /\ Len(result.functions) >= 4
    /\ "no_runtime" \notin Baseline.features

(***************************************************************************)
(* C2. With two or more targets, the wrapper's argument list equals the    *)
(* argument list of the last function of the sub-module the producer       *)
(* returned for the last (baseline) target.                                *)
(***************************************************************************)
C2_WrapperArgsFromBaseline ==
    GeneralDone =>
        LastFn(result).args = LastFn(calls[Len(targets)].out).args

(***************************************************************************)
(* C3. With exactly one target t, no JIT and a non-empty fn_name, the      *)
(* producer is invoked exactly once, with fn_name and t unmodified, and    *)
(* its result is returned unchanged: no error, no wrapper, no runtime      *)
(* module.                                                                 *)
(***************************************************************************)
C3_FastPath ==
    (Len(targets) = 1 /\ PreconditionsHold) =>
        /\ pc \in {"start", "done"}
        /\ modules = <<>>
        /\ wrapper_args = <<>>
        /\ pc = "start" => calls = <<>> /\ result = NoModule
        /\ pc = "done" =>
              /\ Len(calls) = 1
              /\ calls[1].name = fn_name
              /\ calls[1].target = targets[1]
              /\ result = calls[1].out
              /\ Len(result.functions) = Len(calls[1].out.functions)

C3_Witness ==
    /\ pc = "done"
    /\ Len(targets) = 1
    /\ "no_runtime" \notin targets[1].features
    /\ Len(result.functions) = 2

(***************************************************************************)
(* C4. With two or more targets, the producer invocations so far are, in   *)
(* order, those for the first targets of the list: the k-th receives       *)
(* fn_name + "_" + (the string of targets[k] with "-" replaced by "_") and *)
(* targets[k] with no-runtime forced on; a successful call has made        *)
(* exactly one invocation per target.                                      *)
(***************************************************************************)
C4_ProducerCalls ==
    Len(targets) >= 2 =>
        /\ Len(calls) <= Len(targets)
        /\ \A k \in 1..Len(calls) :
              /\ calls[k].name = ExpectedSubName(fn_name, targets[k])
              /\ calls[k].target = NoRuntimeForced(targets[k])
        /\ pc = "done" => Len(calls) = Len(targets)

C4_Witness ==
    /\ GeneralDone
    /\ targets[1] # Baseline
    /\ "debug" \in targets[1].features
    /\ "no_runtime" \notin targets[1].features
    /\ Len(calls) = Len(targets)

(***************************************************************************)
(* C5. With two or more targets, if some target differs from the baseline  *)
(* in os, arch or bits, the call never returns a Module: it cannot leave   *)
(* the loop normally, it can always take a step until it has ended, and it *)
(* ends in the error state.                                                *)
(***************************************************************************)
C5_MachineMismatchFatal ==
    (Len(targets) >= 2 /\ \E k \in 1..Len(targets) : ~SameMachine(targets[k], Baseline)) =>
        /\ result = NoModule
        /\ pc \in {"start", "loop", "error"}
        /\ pc # "error" => ENABLED Next
        /\ pc = "error" => error # NoError

C5_Witness ==
    /\ pc = "error"
    /\ PreconditionsHold
    /\ Len(targets) >= 2
    /\ targets[1].bits # Baseline.bits
    /\ targets[1].os = Baseline.os
    /\ targets[1].arch = Baseline.arch
    /\ calls = <<>>

(***************************************************************************)
(* C6. With two or more targets, if some target differs from the baseline  *)
(* in any one of the five must-match features (C++ name mangling, JIT,     *)
(* no-runtime, register-metadata, user-context), the call never returns a  *)
(* Module and ends in the error state.                                     *)
(***************************************************************************)
C6_FeatureMismatchFatal ==
    (Len(targets) >= 2 /\ \E k \in 1..Len(targets) : ~AgreeOnFive(targets[k], Baseline)) =>
        /\ result = NoModule
        /\ pc \in {"start", "loop", "error"}

(***************************************************************************)
(* C7. If fn_name is empty, or the target list is empty, or the baseline   *)
(* target has JIT, the call ends in the error state with no Module and the *)
(* producer is never invoked, for any number of targets.                   *)
(***************************************************************************)
C7_PreconditionsFatal ==
    ~PreconditionsHold =>
        /\ calls = <<>>
        /\ result = NoModule
        /\ pc \in {"start", "error"}
        /\ pc = "start" => ENABLED Next
        /\ pc = "error" => error # NoError

C7_Witness ==
    /\ pc = "error"
    /\ fn_name # <<>>
    /\ Len(targets) = 1
    /\ "jit" \in targets[1].features
    /\ calls = <<>>

(***************************************************************************)
(* C8. Targets that share os/arch/bits and agree on the five must-match    *)
(* features are accepted even when they differ in another feature such as  *)
(* debug: the call never fails, and the Module it returns ends with a      *)
(* function named fn_name.                                                 *)
(***************************************************************************)
C8_OtherFeaturesMayDiffer ==
    (/\ Len(targets) >= 2
     /\ PreconditionsHold
     /\ \A k \in 1..Len(targets) :
           SameMachine(targets[k], Baseline) /\ AgreeOnFive(targets[k], Baseline)) =>
        /\ pc # "error"
        /\ pc # "done" => ENABLED Next
        /\ pc = "done" => result # NoModule /\ LastFn(result).name = fn_name

C8_Witness ==
    /\ pc = "done"
    /\ targets = << [os |-> "linux", arch |-> "x86", bits |-> 64,
                     features |-> {"profile", "debug"}],
                    [os |-> "linux", arch |-> "x86", bits |-> 64,
                     features |-> {"profile"}] >>
    /\ LastFn(result).name = fn_name

(***************************************************************************)
(* C9. With two or more targets, the returned Module is named fn_name and  *)
(* its Target is the last target of the list as the caller passed it.      *)
(***************************************************************************)
C9_NameAndTarget ==
    GeneralDone =>
        /\ result.name = fn_name
        /\ result.target = Baseline

C9_Witness ==
    /\ GeneralDone
    /\ targets[1] # Baseline
    /\ "no_runtime" \notin Baseline.features
    /\ result.target = Baseline

(***************************************************************************)
(* C10. With two or more targets, the merge list is the per-target         *)
(* sub-modules in order, each produced for a target with no-runtime,       *)
(* followed by exactly one empty Module named fn_name + "_runtime" on the  *)
(* baseline target without no-runtime when the baseline lacks no-runtime,  *)
(* and by nothing when the baseline has it.                                *)
(***************************************************************************)
C10_RuntimeModule ==
    GeneralDone =>
        LET n == Len(targets) IN
        /\ Len(modules) >= n
        /\ \A k \in 1..n :
              /\ modules[k] = calls[k].out
              /\ "no_runtime" \in calls[k].target.features
              /\ "no_runtime" \in modules[k].target.features
        /\ IF "no_runtime" \notin Baseline.features
           THEN /\ Len(modules) = n + 1
                /\ modules[n + 1] =
                      [name |-> fn_name \o <<"_runtime">>,
                       target |-> [Baseline EXCEPT !.features = @ \ {"no_runtime"}],
                       buffers |-> <<>>,
                       functions |-> <<>>]
           ELSE Len(modules) = n

C10_Witness ==
    /\ GeneralDone
    /\ "no_runtime" \notin Baseline.features
    /\ Len(modules) = Len(targets) + 1
    /\ modules[Len(modules)].functions = <<>>

\* The sets of features a machine may satisfy, up to the features no listed
\* target has: those enter no capability check of the call.
HardwareSets == SUBSET (UNION {targets[k].features : k \in 1..Len(targets)})

Supports(hw, t) == t.features \subseteq hw

\* m is the packed mask of t: bit k - 1 is set iff t has FeatureOrder[k].
IsMaskOf(m, t) ==
    /\ m >= 0
    /\ m < 2 ^ Len(FeatureOrder)
    /\ \A k \in 1..Len(FeatureOrder) :
          ((m \div (2 ^ (k - 1))) % 2 = 1) <=> (FeatureOrder[k] \in t.features)

IsCapabilityCheck(p, t) ==
    /\ DOMAIN p = {"ne"}
    /\ p.ne[2] = 0
    /\ DOMAIN p.ne[1] = {"call", "arg"}
    /\ p.ne[1].call = "halide_can_use_target_features"
    /\ IsMaskOf(p.ne[1].arg, t)

IsTruePredicate(p) == p = [ne |-> <<[imm |-> 1], 0>>]

(***************************************************************************)
(* C11 as stated. For targets [t1, t2] whose baseline t2 lacks no-runtime, *)
(* the returned Module has strictly more functions than the two producer   *)
(* results combined, and the injected runtime module contributes at least  *)
(* one of them.                                                            *)
(***************************************************************************)
C11_RuntimeContributes ==
    (GeneralDone /\ Len(targets) = 2 /\ "no_runtime" \notin Baseline.features) =>
        /\ Len(result.functions) >
              Len(calls[1].out.functions) + Len(calls[2].out.functions)
        /\ Len(modules[3].functions) >= 1

(***************************************************************************)
(* C11 as amended. For targets [t1, t2] whose baseline t2 lacks            *)
(* no-runtime, the returned Module has exactly one function more than the  *)
(* two producer results combined: the wrapper. The injected runtime module *)
(* is empty and contributes none.                                          *)
(***************************************************************************)
C11_OnlyWrapperExtra ==
    (GeneralDone /\ Len(targets) = 2 /\ "no_runtime" \notin Baseline.features) =>
        /\ Len(result.functions) =
              Len(calls[1].out.functions) + Len(calls[2].out.functions) + 1
        /\ Len(modules) = 3
        /\ Len(modules[3].functions) = 0
        /\ IsWrapper(LastFn(result))

C11_Witness ==
    /\ GeneralDone
    /\ Len(targets) = 2
    /\ "no_runtime" \notin Baseline.features
    /\ Len(modules) = 3
    /\ Len(result.functions) = 4

PairsInOrder ==
    /\ Len(wrapper_args) = 2 * Len(targets)
    /\ \A k \in 1..Len(targets) :
          /\ DOMAIN wrapper_args[2 * k - 1] = {"ne"}
          /\ wrapper_args[2 * k] = [name |-> ExpectedSubName(fn_name, targets[k])]

FirstOf(S) == CHOOSE k \in S : \A j \in S : k <= j

C14_AssertResultZero ==
    GeneralDone =>
        LET b == LastFn(result).body IN
        /\ b.value = [call |-> "call_cached_indirect_function", args |-> wrapper_args]
        /\ b.let # fn_name
        /\ \A k \in 1..Len(result.functions) : result.functions[k].name # b.let
        /\ \A ret \in ReturnValues :
              run_wrapper_body(b, ret) =
                 IF ret = 0 THEN [ok |-> TRUE] ELSE [failure |-> [int |-> ret]]

C14_Witness ==
    /\ GeneralDone
    /\ run_wrapper_body(LastFn(result).body, -1) = [failure |-> [int |-> -1]]
    /\ run_wrapper_body(LastFn(result).body, 0) = [ok |-> TRUE]

RECURSIVE BuffersOf(_, _)
BuffersOf(ms, k) == IF k > Len(ms) THEN <<>> ELSE ms[k].buffers \o BuffersOf(ms, k + 1)

RECURSIVE FunctionsOf(_, _)
FunctionsOf(ms, k) == IF k > Len(ms) THEN <<>> ELSE ms[k].functions \o FunctionsOf(ms, k + 1)

RECURSIVE CountOf(_, _)
CountOf(lens, k) == IF k > Len(lens) THEN 0 ELSE lens[k] + CountOf(lens, k + 1)

NamesDistinct(fs) ==
    \A j \in 1..Len(fs) : \A k \in 1..Len(fs) : j # k => fs[j].name # fs[k].name

TargetsUnequal ==
    \E j \in 1..Len(link_inputs) : \E k \in 1..Len(link_inputs) :
        link_inputs[j].target # link_inputs[k].target

(***************************************************************************)
(* C15. link_modules over Modules whose Targets are not all equal (os,     *)
(* arch, bits and the whole feature set) never returns a Module, wherever  *)
(* the unequal Module sits: it can always take a step until it has ended,  *)
(* and it ends in the user error.                                          *)
(***************************************************************************)
C15_UnequalTargetsFatal ==
    TargetsUnequal =>
        /\ link_result = NoModule
        /\ link_pc \in {"start", "loop", "error"}
        /\ link_pc # "error" => ENABLED NextLink
        /\ link_pc = "error" => link_error # NoError

C15_Witness ==
    /\ link_pc = "error"
    /\ Len(link_inputs) = 3
    /\ link_inputs[2].target = link_inputs[1].target
    /\ SameMachine(link_inputs[3].target, link_inputs[1].target)
    /\ link_inputs[3].target.features # link_inputs[1].target.features
    /\ link_result = NoModule

(***************************************************************************)
(* C16. On success link_modules returns a Module whose buffers are the     *)
(* inputs' buffers concatenated and whose functions are the inputs'        *)
(* functions concatenated, inputs in list order and each input's order     *)
(* kept, nothing dropped or deduplicated.                                  *)
(***************************************************************************)
C16_Concatenation ==
    (link_pc = "done" /\ link_inputs # <<>>) =>
        /\ link_result.buffers = BuffersOf(link_inputs, 1)
        /\ link_result.functions = FunctionsOf(link_inputs, 1)
        /\ Len(link_result.buffers) =
              CountOf([k \in 1..Len(link_inputs) |-> Len(link_inputs[k].buffers)], 1)
        /\ Len(link_result.functions) =
              CountOf([k \in 1..Len(link_inputs) |-> Len(link_inputs[k].functions)], 1)
        /\ Len(link_inputs) = 1 =>
              /\ link_result.buffers = link_inputs[1].buffers
              /\ link_result.functions = link_inputs[1].functions

C16_Witness ==
    /\ link_pc = "done"
    /\ Len(link_inputs) = 2
    /\ link_inputs[1].buffers # <<>>
    /\ Len(link_inputs[1].functions) = 2
    /\ Len(link_inputs[2].functions) = 1
    /\ link_inputs[2].functions[1].name = link_inputs[1].functions[1].name
    /\ Len(link_result.functions) = 3

(***************************************************************************)
(* C17. The Module link_modules returns is named name and its Target is    *)
(* the Target of the first input Module.                                   *)
(***************************************************************************)
C17_LinkNameAndTarget ==
    (link_pc = "done" /\ link_inputs # <<>>) =>
        /\ link_result.name = link_name
        /\ link_result.target = link_inputs[1].target

C17_Witness ==
    /\ link_pc = "done"
    /\ Len(link_inputs) >= 2
    /\ link_name # link_inputs[1].name
    /\ link_result.name = link_name

(***************************************************************************)
(* C18. Appending a function whose name is already in the Module fails, so *)
(* the function names of a Module under construction are pairwise distinct *)
(* after any sequence of appends.                                          *)
(***************************************************************************)
C18_AppendKeepsNamesDistinct ==
    link_output # NoModule => NamesDistinct(link_output.functions)

(***************************************************************************)
(* C19. The Module build_multitarget_module returns for two or more        *)
(* targets has pairwise-distinct function names (each producer result has; *)
(* the target list may repeat a target).                                   *)
(***************************************************************************)
C19_MergedNamesDistinct ==
    GeneralDone => NamesDistinct(result.functions)

(***************************************************************************)
(* C20. link_modules called with an empty list ends in a fatal failure and *)
(* returns no Module.                                                      *)
(***************************************************************************)
C20_EmptyListFatal ==
    (link_pc # "idle" /\ link_inputs = <<>>) =>
        /\ link_result = NoModule
        /\ link_output = NoModule
        /\ link_pc \in {"start", "crashed"}

(***************************************************************************)
(* Vocabulary of the output driver's properties                            *)
(***************************************************************************)
Called == out_entry # "idle"

NativeKinds == {"object_name", "assembly_name", "bitcode_name", "llvm_assembly_name"}

NativeEmitters ==
    {"compile_llvm_module_to_object", "compile_llvm_module_to_assembly",
     "compile_llvm_module_to_llvm_bitcode", "compile_llvm_module_to_llvm_assembly"}

\* The backends that may satisfy a request of each kind.
EmittersOf ==
    [object_name |-> {"compile_llvm_module_to_object", "compile_llvm_module_to_llvm_bitcode"},
     assembly_name |-> {"compile_llvm_module_to_assembly",
                        "compile_llvm_module_to_llvm_assembly"},
     bitcode_name |-> {"compile_llvm_module_to_llvm_bitcode"},
     llvm_assembly_name |-> {"compile_llvm_module_to_llvm_assembly"},
     c_header_name |-> {"CodeGen_C"}, c_source_name |-> {"CodeGen_C"},
     stmt_name |-> {"operator<<"}, stmt_html_name |-> {"print_to_html"}]

IsLowering(inv) == inv.op = "compile_module_to_llvm_module"

Lowerings == {j \in 1..Len(out_trace) : IsLowering(out_trace[j])}

Emissions == {j \in 1..Len(out_trace) : ~IsLowering(out_trace[j])}

RequestedKinds == {k \in DOMAIN out_request : out_request[k] # ""}

RequestedPaths == {out_request[k] : k \in RequestedKinds}

EmptyDisk == [p \in DOMAIN out_fs |-> [none |-> "file"]]

\* The disk as the last call found it.
DiskBefore == IF out_calls >= 2 THEN out_prev.fs ELSE EmptyDisk

Absent(fs, p) == fs[p] = [none |-> "file"]

OnlyRequested(o, ks) == \A k \in DOMAIN o : (o[k] # "") <=> (k \in ks)

(***************************************************************************)
(* C21. Whatever combination of the eight paths is requested, a call of    *)
(* the driver makes exactly one emission per kind whose path is non-empty, *)
(* by a backend of that kind and to exactly that path, and no other        *)
(* emission; a file is left at every requested path, and no other path of  *)
(* the disk is touched.                                                    *)
(***************************************************************************)
C21_EmitterIffRequested ==
    Called =>
        /\ \A k \in RequestedKinds :
              Cardinality({j \in Emissions :
                              /\ out_trace[j].path = out_request[k]
                              /\ out_trace[j].op \in EmittersOf[k]}) = 1
        /\ Cardinality(Emissions) = Cardinality(RequestedKinds)
        /\ \A j \in Emissions : out_trace[j].path \in RequestedPaths
        /\ \A p \in DOMAIN out_fs :
              IF p \in RequestedPaths THEN ~Absent(out_fs, p)
              ELSE out_fs[p] = DiskBefore[p]

C21_Witness ==
    /\ out_calls = 1
    /\ out_entry = "compile_module_to_outputs"
    /\ RequestedKinds = {"object_name", "c_header_name", "stmt_html_name"}
    /\ Cardinality(Emissions) = 3
    /\ ~Absent(out_fs, "f.html")
    /\ Absent(out_fs, "f.stmt")

(***************************************************************************)
(* C22. Within one call of the driver the Module is lowered to the native  *)
(* representation exactly once when object, assembly, bitcode or LLVM      *)
(* assembly is requested, before any emission, and that one result is the  *)
(* input of every native emitter invoked; it is lowered zero times when    *)
(* none of the four is requested.                                          *)
(***************************************************************************)
C22_LoweredOnce ==
    Called =>
        /\ Cardinality(Lowerings) = IF RequestedKinds \cap NativeKinds # {} THEN 1 ELSE 0
        /\ \A j \in Lowerings : j = 1 /\ out_trace[j].input = out_module
        /\ \A j \in Emissions :
              out_trace[j].op \in NativeEmitters =>
                 out_trace[j].input = [llvm_module_of |-> out_module, lowering |-> 1]
        /\ \A j \in Emissions :
              out_trace[j].op \notin NativeEmitters => out_trace[j].input = out_module

C22_Witness ==
    /\ Called
    /\ {"object_name", "assembly_name", "bitcode_name"} \subseteq RequestedKinds
    /\ Cardinality(Lowerings) = 1
    /\ Cardinality({j \in Emissions : out_trace[j].op \in NativeEmitters}) = 3

(***************************************************************************)
(* C23. On a PNaCl Module an object request is satisfied by the bitcode    *)
(* emitter writing to the object path, and the object emitter is not       *)
(* invoked; on any other architecture an object request goes to the object *)
(* emitter and an assembly request to the assembly emitter.                *)
(***************************************************************************)
C23_BitcodeForPNaCl ==
    Called =>
        IF out_module.target.arch = "pnacl"
        THEN /\ \A j \in Emissions : out_trace[j].op # "compile_llvm_module_to_object"
             /\ out_request.object_name # "" =>
                   \E j \in Emissions :
                      /\ out_trace[j].op = "compile_llvm_module_to_llvm_bitcode"
                      /\ out_trace[j].path = out_request.object_name
        ELSE /\ out_request.object_name # "" =>
                   \E j \in Emissions :
                      /\ out_trace[j].op = "compile_llvm_module_to_object"
                      /\ out_trace[j].path = out_request.object_name
             /\ out_request.assembly_name # "" =>
                   \E j \in Emissions :
                      /\ out_trace[j].op = "compile_llvm_module_to_assembly"
                      /\ out_trace[j].path = out_request.assembly_name
             /\ out_request.bitcode_name = "" =>
                   \A j \in Emissions :
                      out_trace[j].op # "compile_llvm_module_to_llvm_bitcode"

C23_Witness ==
    /\ Called
    /\ out_module.target.arch = "pnacl"
    /\ out_request.object_name = "f.o"
    /\ out_request.bitcode_name = ""
    /\ \E j \in Emissions :
          /\ out_trace[j].op = "compile_llvm_module_to_llvm_bitcode"
          /\ out_trace[j].path = "f.o"

(***************************************************************************)
(* C24. compile_standalone_runtime(object_path, t) hands the driver a      *)
(* Module named "standalone_runtime" with no buffers and no functions on t *)
(* with no-runtime and JIT cleared and nothing else changed, and a request *)
(* whose only path is the object path, set to object_path; every emission  *)
(* goes to that path and no other file is written.                         *)
(***************************************************************************)
C24_StandaloneRuntime ==
    (out_entry = "compile_standalone_runtime") =>
        LET object_path == out_args[1]
            t == out_args[2]
        IN  /\ out_module =
                  [name |-> <<"standalone_runtime">>,
                   target |-> [os |-> t.os, arch |-> t.arch, bits |-> t.bits,
                               features |-> t.features \ {"no_runtime", "jit"}],
                   buffers |-> <<>>,
                   functions |-> <<>>]
            /\ out_request.object_name = object_path
            /\ \A k \in DOMAIN out_request : k # "object_name" => out_request[k] = ""
            /\ \A j \in Emissions :
                  /\ out_trace[j].path = object_path
                  /\ out_trace[j].op \in EmittersOf.object_name
            /\ Cardinality(Emissions) = IF object_path = "" THEN 0 ELSE 1
            /\ \A p \in DOMAIN out_fs : p # object_path => Absent(out_fs, p)

C24_Witness ==
    /\ out_entry = "compile_standalone_runtime"
    /\ {"jit", "no_runtime", "debug"} \subseteq out_args[2].features
    /\ out_module.target.features = {"debug"}
    /\ out_args[1] = "runtime.o"
    /\ ~Absent(out_fs, "runtime.o")

(***************************************************************************)
(* C25. compile_module_to_outputs with only the statement-dump path set    *)
(* leaves a file at that path and no other file; called again on the same  *)
(* Module with the object path set as well, to a path of its own, it       *)
(* leaves both files, and the statement dump it writes is the one the      *)
(* first call wrote.                                                       *)
(***************************************************************************)
C25_StmtThenObject ==
    /\ (/\ out_calls = 1
        /\ out_driver = "compile_module_to_outputs"
        /\ OnlyRequested(out_request, {"stmt_name"})) =>
          \A p \in DOMAIN out_fs : Absent(out_fs, p) <=> (p # out_request.stmt_name)
    /\ (/\ out_calls = 2
        /\ out_driver = "compile_module_to_outputs"
        /\ out_prev.driver = "compile_module_to_outputs"
        /\ OnlyRequested(out_prev.request, {"stmt_name"})
        /\ OnlyRequested(out_request, {"stmt_name", "object_name"})
        /\ out_request.stmt_name = out_prev.request.stmt_name
        /\ out_request.object_name # out_request.stmt_name) =>
          LET s == out_request.stmt_name
              o == out_request.object_name
          IN  /\ \A p \in DOMAIN out_fs : Absent(out_prev.fs, p) <=> (p # s)
              /\ \A p \in DOMAIN out_fs : Absent(out_fs, p) <=> (p \notin {s, o})
              /\ \E j \in Emissions : out_trace[j].path = s
              /\ out_fs[s] = out_prev.fs[s]
              /\ out_fs[o].op \in EmittersOf.object_name

C25_Witness ==
    /\ out_calls = 2
    /\ out_driver = "compile_module_to_outputs"
    /\ out_prev.driver = "compile_module_to_outputs"
    /\ OnlyRequested(out_prev.request, {"stmt_name"})
    /\ out_request = [out_prev.request EXCEPT !.object_name = "f.o"]
    /\ out_fs["f.stmt"] = out_prev.fs["f.stmt"]
    /\ ~Absent(out_fs, "f.o")

(***************************************************************************)
(* C26. The language variant of a C header or C source request follows     *)
(* from the Module target's C++-mangling feature alone: the C++ header and *)
(* C++ implementation variants with it, the plain C header and plain C     *)
(* implementation variants without it; the header generator is handed the  *)
(* destination path, and no other backend is.                              *)
(***************************************************************************)
C26_CVariantFromMangling ==
    Called =>
        LET cpp == "c_plus_plus_name_mangling" \in out_module.target.features
            generated(path, variant, guard) ==
                \E j \in Emissions :
                    /\ out_trace[j].op = "CodeGen_C"
                    /\ out_trace[j].path = path
                    /\ out_trace[j].variant = variant
                    /\ out_trace[j].guard = guard
        IN  /\ out_request.c_header_name # "" =>
                  generated(out_request.c_header_name,
                            IF cpp THEN "CPlusPlusHeader" ELSE "CHeader",
                            out_request.c_header_name)
            /\ out_request.c_source_name # "" =>
                  generated(out_request.c_source_name,
                            IF cpp THEN "CPlusPlusImplementation" ELSE "CImplementation",
                            "")
            /\ Cardinality({j \in Emissions : out_trace[j].op = "CodeGen_C"}) =
                  Cardinality(RequestedKinds \cap {"c_header_name", "c_source_name"})
            /\ \A j \in Emissions :
                  out_trace[j].guard # "" =>
                     out_trace[j].variant \in {"CPlusPlusHeader", "CHeader"}

C26_Witness ==
    /\ Called
    /\ "c_plus_plus_name_mangling" \in out_module.target.features
    /\ out_request.c_header_name = "f.h"
    /\ out_request.c_source_name = "f.c"
    /\ \E j \in Emissions :
          out_trace[j].variant = "CPlusPlusHeader" /\ out_trace[j].guard = "f.h"
    /\ \E j \in Emissions :
          out_trace[j].variant = "CPlusPlusImplementation" /\ out_trace[j].guard = ""

(***************************************************************************)
(* C28. Module::compile(outputs) and compile_module_to_outputs(module,     *)
(* outputs) make the same backend invocations on every Module and every    *)
(* request: the same lowerings and emitters on the same paths in the same  *)
(* order, and so leave the same files.                                     *)
(***************************************************************************)
C28_CompileEquivalent ==
    Called =>
        /\ Module_compile(out_module, out_request) =
              compile_module_to_outputs(out_module, out_request)
        /\ out_trace = Module_compile(out_module, out_request)
        /\ out_trace = compile_module_to_outputs(out_module, out_request)
        /\ out_fs = run_backends(DiskBefore, Module_compile(out_module, out_request), 1)

C28_Witness ==
    /\ out_entry = "Module::compile"
    /\ out_module.target.arch = "pnacl"
    /\ OnlyRequested(out_request, {"object_name", "c_header_name", "stmt_name"})
    /\ Len(out_trace) = 4
    /\ out_trace = compile_module_to_outputs(out_module, out_request)

(***************************************************************************)
(* C27. With two or more targets, the buffers of the returned Module are   *)
(* the buffers of the per-target sub-modules in target-list order followed *)
(* by those of the runtime module when there is one, and its functions are *)
(* their functions in the same order followed by the wrapper: each         *)
(* Module's own order kept, nothing dropped or repeated, so the function   *)
(* count is the sum of theirs plus one.                                    *)
(***************************************************************************)
C27_MergedInOrder ==
    GeneralDone =>
        LET n == Len(targets) IN
        /\ Len(modules) \in {n, n + 1}
        /\ \A k \in 1..n : modules[k] = calls[k].out
        /\ result.buffers = BuffersOf(modules, 1)
        /\ result.functions = FunctionsOf(modules, 1) \o <<LastFn(result)>>
        /\ IsWrapper(LastFn(result))
        /\ Len(result.buffers) =
              CountOf([k \in 1..Len(modules) |-> Len(modules[k].buffers)], 1)
        /\ Len(result.functions) =
              CountOf([k \in 1..Len(modules) |-> Len(modules[k].functions)], 1) + 1

C27_Witness ==
    /\ GeneralDone
    /\ Len(targets) = 3
    /\ Len(modules) = 4
    /\ Len(calls[1].out.functions) = 2
    /\ Len(calls[2].out.functions) = 1
    /\ Len(calls[3].out.functions) = 2
    /\ Len(result.buffers) = 2
    /\ Len(result.functions) = 6

\* The features the running copy compares with the baseline's.
ComparedFeatures ==
    IF impl = "Output" THEN {"no_runtime", "user_context", "jit"} ELSE FiveMustMatch

\* The targets that fail a check of the loop.
Failing ==
    {k \in 1..Len(targets) :
        \/ ~SameMachine(targets[k], Baseline)
        \/ \E f \in ComparedFeatures :
              (f \in targets[k].features) # (f \in Baseline.features)}

(***************************************************************************)
(* C29. In the general path the checks and the producer calls go target by *)
(* target: when targets[k] is the first target to fail the os/arch/bits    *)
(* check or a must-match feature check of the running copy, the producer   *)
(* is invoked for the targets before it, in order, and for no other; the   *)
(* call then ends in the error with no Module returned.                    *)
(***************************************************************************)
C29_ChecksInterleaved ==
    (Len(targets) >= 2 /\ PreconditionsHold /\ Failing # {}) =>
        LET k == FirstOf(Failing) IN
        /\ result = NoModule
        /\ pc \in {"start", "loop", "error"}
        /\ pc # "error" => ENABLED Next
        /\ Len(calls) <= k - 1
        /\ \A j \in 1..Len(calls) :
              /\ calls[j].name = ExpectedSubName(fn_name, targets[j])
              /\ calls[j].target = NoRuntimeForced(targets[j])
        /\ pc = "loop" => i <= k /\ Len(calls) = i - 1
        /\ pc = "error" =>
              /\ i = k
              /\ Len(calls) = k - 1
              /\ Len(modules) = k - 1
              /\ error # NoError

C29_Witness ==
    /\ pc = "error"
    /\ PreconditionsHold
    /\ Len(targets) = 3
    /\ FirstOf(Failing) = 2
    /\ SameMachine(targets[2], Baseline)
    /\ Len(calls) = 1
    /\ result = NoModule

(***************************************************************************)
(* C30. The mask handed to the capability check of a target has bit i set  *)
(* exactly when the target, as the caller listed it, has feature number i, *)
(* for every i below the feature count, and no bit from the feature count  *)
(* up; in particular its no-runtime bit is that of the listed target, not  *)
(* of the target the producer was called with.                             *)
(***************************************************************************)
C30_MaskOfListedTarget ==
    (Len(targets) >= 2 /\ pc \in {"loop", "link", "done"}) =>
        \A k \in 1..Len(calls) :
            LET e == wrapper_args[2 * k - 1].ne[1] IN
            /\ targets[k] # Baseline => "call" \in DOMAIN e
            /\ "call" \in DOMAIN e =>
                  /\ e.call = "halide_can_use_target_features"
                  /\ IsMaskOf(e.arg, targets[k])
                  /\ ((e.arg \div (2 ^ 5)) % 2 = 1) <=> ("no_runtime" \in targets[k].features)
                  /\ "no_runtime" \in calls[k].target.features

C30_Witness ==
    /\ GeneralDone
    /\ targets[1].features = {"profile", "debug"}
    /\ "no_runtime" \in calls[1].target.features
    /\ wrapper_args[1].ne[1].arg = 6
====
